---- MODULE Spec2Model ----
(***************************************************************************)
(* Model of the wav renderer of sydneyani/Realtime-API:                    *)
(*   normalizeArray (the resampler and its WeakMap memoization) and        *)
(*   WavRenderer.drawSpeechVisual (the per-frame canvas paint).            *)
(*                                                                         *)
(* Numbers.  A JavaScript value is a record [t, n, d]: t = "num" is the    *)
(* rational n/d in lowest terms with d > 0, t = "NaN", t = "inf" and       *)
(* t = "undefined" are the other outcomes the code can produce.  Samples   *)
(* of a Float32Array are integers (a fixed unit of amplitude).  Sample     *)
(* arithmetic is kept exact; the one place where the rounding of IEEE      *)
(* doubles decides a discrete outcome, the bucket index                    *)
(* Math.floor(i * (m / n)), is computed bit by bit as the doubles are.     *)
(***************************************************************************)
EXTENDS Integers, Sequences, FiniteSets, TLC

VARIABLES bufs, dataMap, arrays, ret, canvas, now, firstRet

vars == <<bufs, dataMap, arrays, ret, canvas, now, firstRet>>

----------------------------------------------------------------------------
(* JavaScript numbers and undefined *)

RECURSIVE GCD(_, _)
GCD(a, b) == IF b = 0 THEN a ELSE GCD(b, a % b)

IntAbs(k) == IF k < 0 THEN -k ELSE k

NaN == [t |-> "NaN", n |-> 0, d |-> 0]

Undefined == [t |-> "undefined", n |-> 0, d |-> 0]

Infinity(sign) == [t |-> "inf", n |-> sign, d |-> 0]

\* a / b as a number value: lowest terms, 0/0 = NaN, x/0 = +-Infinity
Frac(a, b) ==
    IF b = 0
    THEN IF a = 0 THEN NaN ELSE Infinity(IF a < 0 THEN -1 ELSE 1)
    ELSE LET g == GCD(IntAbs(a), IntAbs(b))
             s == IF b < 0 THEN -1 ELSE 1
         IN  [t |-> "num", n |-> (s * a) \div g, d |-> (s * b) \div g]

Number(k) == [t |-> "num", n |-> k, d |-> 1]

\* ToNumber: undefined converts to NaN in arithmetic
ToNumber(v) == IF v.t = "undefined" THEN NaN ELSE v

IsNum(v) == v.t = "num"

Add(x, y) ==
    LET a == ToNumber(x)
        b == ToNumber(y)
    IN  IF IsNum(a) /\ IsNum(b)
        THEN Frac(a.n * b.d + b.n * a.d, a.d * b.d)
        ELSE IF a.t = "inf" /\ IsNum(b) THEN a
        ELSE IF b.t = "inf" /\ IsNum(a) THEN b
        ELSE IF a.t = "inf" /\ b.t = "inf" /\ a.n = b.n THEN a
        ELSE NaN

Neg(x) ==
    LET a == ToNumber(x)
    IN  IF IsNum(a) THEN Frac(-a.n, a.d)
        ELSE IF a.t = "inf" THEN Infinity(-a.n)
        ELSE NaN

Sub(x, y) == Add(x, Neg(y))

Sign(k) == IF k < 0 THEN -1 ELSE IF k > 0 THEN 1 ELSE 0

Mul(x, y) ==
    LET a == ToNumber(x)
        b == ToNumber(y)
    IN  IF IsNum(a) /\ IsNum(b)
        THEN Frac(a.n * b.n, a.d * b.d)
        ELSE IF a.t = "NaN" \/ b.t = "NaN" THEN NaN
        ELSE IF Sign(a.n) * Sign(b.n) = 0 THEN NaN
        ELSE Infinity(Sign(a.n) * Sign(b.n))

Div(x, y) ==
    LET a == ToNumber(x)
        b == ToNumber(y)
    IN  IF IsNum(a) /\ IsNum(b)
        THEN Frac(a.n * b.d, a.d * b.n)
        ELSE IF a.t = "NaN" \/ b.t = "NaN" THEN NaN
        ELSE IF a.t = "inf" /\ b.t = "inf" THEN NaN
        ELSE IF a.t = "inf" THEN Infinity(a.n * (IF b.n < 0 THEN -1 ELSE 1))
        ELSE Number(0)

MathAbs(x) ==
    LET a == ToNumber(x)
    IN  IF IsNum(a) THEN Frac(IntAbs(a.n), a.d)
        ELSE IF a.t = "inf" THEN Infinity(1)
        ELSE NaN

\* x >= y; any comparison with NaN is false
GE(x, y) ==
    LET a == ToNumber(x)
        b == ToNumber(y)
    IN  IF IsNum(a) /\ IsNum(b) THEN a.n * b.d >= b.n * a.d
        ELSE IF a.t = "NaN" \/ b.t = "NaN" THEN FALSE
        ELSE IF a.t = "inf" THEN a.n = 1 \/ (b.t = "inf" /\ b.n = -1)
        ELSE b.n = -1

MathMax(x, y) ==
    LET a == ToNumber(x)
        b == ToNumber(y)
    IN  IF a.t = "NaN" \/ b.t = "NaN" THEN NaN
        ELSE IF GE(a, b) THEN a ELSE b

MathFloor(x) ==
    LET a == ToNumber(x)
    IN  IF IsNum(a) THEN Number(a.n \div a.d) ELSE a

MathCeil(x) ==
    LET a == ToNumber(x)
    IN  IF IsNum(a) THEN Number(-((-a.n) \div a.d)) ELSE a

IsIndex(v, len) == IsNum(v) /\ v.d = 1 /\ v.n >= 0 /\ v.n < len

\* data[idx] on a Float32Array: an index out of range reads undefined
TypedGet(data, idx) ==
    IF IsIndex(idx, Len(data)) THEN Number(data[idx.n + 1]) ELSE Undefined

\* arr[idx] on an Array: a hole or an index out of range reads undefined
ArrayGet(arr, idx) ==
    IF IsIndex(Number(idx), Len(arr)) THEN arr[idx + 1] ELSE Undefined

\* arr[idx] = v on an Array: writing past the end lengthens it with holes
ArraySet(arr, idx, v) ==
    IF idx < Len(arr)
    THEN [arr EXCEPT ![idx + 1] = v]
    ELSE [k \in 1..(idx + 1) |->
            IF k <= Len(arr) THEN arr[k]
            ELSE IF k = idx + 1 THEN v ELSE Undefined]

\* new Array(m) for m >= 0: m holes
NewArray(m) == [k \in 1..m |-> Undefined]

\* arr.fill(v)
Fill(arr, v) == [k \in 1..Len(arr) |-> v]

----------------------------------------------------------------------------
(* IEEE-754 double arithmetic of the bucket index, line 32:                *)
(*     const index = Math.floor(i * (m / n));                              *)
(* A non-negative double is [man, exp]: an integer significand man, kept   *)
(* as a sequence of limbs of LimbBits bits, least significant first, and   *)
(* the value man * 2^(-exp).  The quotient m / n and the product           *)
(* i * (m / n) are each rounded to MantissaBits significant bits, to       *)
(* nearest, ties to even, as the hardware does.                            *)

MantissaBits == 53

LimbBits == 13

RECURSIVE Pow2(_)
Pow2(k) == IF k = 0 THEN 1 ELSE 2 * Pow2(k - 1)

Limb == Pow2(LimbBits)

\* the smallest s with m * 2^s >= n, for 1 <= m <= n
RECURSIVE NormShift(_, _)
NormShift(m, n) == IF m >= n THEN 0 ELSE 1 + NormShift(2 * m, n)

\* the number of bits of k >= 0
RECURSIVE BitLength(_)
BitLength(k) == IF k = 0 THEN 0 ELSE 1 + BitLength(k \div 2)

\* long division: the next k limbs of r / n (r < n), least significant
\* first, and the remainder left: [limbs, rem]
RECURSIVE DivLimbs(_, _, _)
DivLimbs(r, n, k) ==
    IF k = 0 THEN [limbs |-> <<>>, rem |-> r]
    ELSE LET rest == DivLimbs((r * Limb) % n, n, k - 1)
         IN  [limbs |-> Append(rest.limbs, (r * Limb) \div n), rem |-> rest.rem]

\* limbs + c
RECURSIVE AddLimbs(_, _)
AddLimbs(limbs, c) ==
    IF c = 0 THEN limbs
    ELSE IF limbs = <<>> THEN <<c % Limb>> \o AddLimbs(<<>>, c \div Limb)
    ELSE LET v == limbs[1] + c
         IN  <<v % Limb>> \o AddLimbs(Tail(limbs), v \div Limb)

\* limbs * i + carry, exactly
RECURSIVE MulLimbs(_, _, _)
MulLimbs(limbs, i, carry) ==
    IF limbs = <<>> THEN AddLimbs(<<>>, carry)
    ELSE LET v == limbs[1] * i + carry
         IN  <<v % Limb>> \o MulLimbs(Tail(limbs), i, v \div Limb)

RECURSIVE FromLimbs(_)
FromLimbs(limbs) ==
    IF limbs = <<>> THEN 0 ELSE limbs[1] + Limb * FromLimbs(Tail(limbs))

\* an exact significand (its top limb not 0) rounded to MantissaBits
\* significant bits; fewer than LimbBits bits are dropped
RoundLimbs(limbs) ==
    LET L == LimbBits * (Len(limbs) - 1) + BitLength(limbs[Len(limbs)])
        d == L - MantissaBits
    IN  IF d <= 0 THEN limbs
        ELSE LET low     == limbs[1]
                 dropped == low % Pow2(d)
                 half    == Pow2(d - 1)
                 odd     == (low \div Pow2(d)) % 2 = 1
                 up      == dropped > half \/ (dropped = half /\ odd)
             IN  AddLimbs([limbs EXCEPT ![1] = low - dropped],
                          IF up THEN Pow2(d) ELSE 0)

\* the double m / n, for 0 <= m <= n and n >= 1
Fl64Div(m, n) ==
    IF m = 0 THEN [man |-> <<>>, exp |-> 0]
    ELSE LET s  == NormShift(m, n)
             q  == DivLimbs(m * Pow2(s) - n, n, (MantissaBits - 1) \div LimbBits)
             up == 2 * q.rem > n \/ (2 * q.rem = n /\ q.limbs[1] % 2 = 1)
         IN  [man |-> AddLimbs(Append(q.limbs, 1), IF up THEN 1 ELSE 0),
              exp |-> MantissaBits - 1 + s]

\* the double i * x, for an integer i >= 0
Fl64Mul(i, x) ==
    IF i = 0 \/ x.man = <<>> THEN [man |-> <<>>, exp |-> 0]
    ELSE [man |-> RoundLimbs(MulLimbs(x.man, i, 0)), exp |-> x.exp]

\* Math.floor of a double x >= 0
Fl64Floor(x) ==
    LET whole == x.exp \div LimbBits
    IN  IF Len(x.man) <= whole THEN 0
        ELSE FromLimbs(SubSeq(x.man, whole + 1, Len(x.man)))
                 \div Pow2(x.exp % LimbBits)

\* the index rounded up instead: Math.ceil(i * m / n)
BucketIndexCeil(i, m, n) == (i * m + n - 1) \div n

\* Math.floor(i * (m / n))
BucketIndex(i, m, n) == Fl64Floor(Fl64Mul(i, Fl64Div(m, n)))

----------------------------------------------------------------------------
(* The heap of result arrays.  arrays maps the identity of every result    *)
(* array that is still referenced, by the WeakMap or as the value the      *)
(* last call returned, to [value, origin, input]; origin and input record  *)
(* the call that computed it and the samples it read.                      *)

\* every array identity stored in the WeakMap
Cached(dm) ==
    UNION {UNION {{dm[b][mk][dk] : dk \in DOMAIN dm[b][mk]} :
                      mk \in DOMAIN dm[b]} : b \in DOMAIN dm}

\* line 26: the identity of a newly allocated array
NewId(arrs) == CHOOSE i \in 1..(Cardinality(DOMAIN arrs) + 1) : i \notin DOMAIN arrs

\* arrays referenced neither by the WeakMap nor by the caller are reclaimed
Sweep(arrs, dm, r) ==
    [i \in {j \in DOMAIN arrs : j \in Cached(dm) \/ j = r.arr} |-> arrs[i]]

NoRet ==
    [kind |-> "none", arr |-> 0, error |-> "", hit |-> FALSE, count |-> <<>>,
     data |-> <<>>,
     call |-> [b |-> 0, m |-> 0, d |-> FALSE, memoize |-> FALSE]]

----------------------------------------------------------------------------
(* normalizeArray, lines 8-63 *)

\* lines 33-39: sample goes into bucket index; st = [result, count]
Accumulate(st, index, sample, downsamplePeaks) ==
    [result |-> ArraySet(st.result, index,
                    IF downsamplePeaks
                    THEN MathMax(ArrayGet(st.result, index), sample)
                    ELSE Add(ArrayGet(st.result, index), sample)),
     count  |-> ArraySet(st.count, index,
                    Add(ArrayGet(st.count, index), Number(1)))]

\* lines 32-39: the body of the loop for sample i
DownsampleStep(data, m, downsamplePeaks, i, st) ==
    Accumulate(st, BucketIndex(i, m, Len(data)),
               MathAbs(TypedGet(data, Number(i))), downsamplePeaks)

\* lines 31-40: the iterations lo..hi of the loop, in order.  (The range is
\* halved, and the first half compared, only to keep TLC's evaluation
\* stack shallow: the value is that of running lo, lo + 1, ..., hi.)
RECURSIVE DownsampleLoop(_, _, _, _, _, _)
DownsampleLoop(data, m, downsamplePeaks, lo, hi, st) ==
    IF lo > hi THEN st
    ELSE IF lo = hi THEN DownsampleStep(data, m, downsamplePeaks, lo, st)
    ELSE LET mid == (lo + hi) \div 2
             fst == DownsampleLoop(data, m, downsamplePeaks, lo, mid, st)
         IN  IF fst = st THEN DownsampleLoop(data, m, downsamplePeaks, mid + 1, hi, st)
             ELSE DownsampleLoop(data, m, downsamplePeaks, mid + 1, hi, fst)

\* lines 41-45: in average mode result[i] = result[i] / count[i] over
\* result.length
DivideByCount(downsamplePeaks, st) ==
    IF downsamplePeaks THEN st
    ELSE [result |-> [k \in 1..Len(st.result) |->
                         Div(st.result[k], ArrayGet(st.count, k - 1))],
          count  |-> st.count]

\* lines 27-45: [result, count]
Downsample(data, m, downsamplePeaks) ==
    DivideByCount(downsamplePeaks,
        DownsampleLoop(data, m, downsamplePeaks, 0, Len(data) - 1,
            [result |-> Fill(NewArray(m), Number(0)),
             count  |-> Fill(NewArray(m), Number(0))]))

\* the interpolation over the samples' absolute values, as the
\* downsampling branch takes them
InterpolateAbs(data, m, i) ==
    LET n     == Len(data)
        index == Div(Number(i * (n - 1)), Number(m - 1))
        low   == MathFloor(index)
        high  == MathCeil(index)
        t     == Sub(index, low)
    IN  IF GE(high, Number(n))
        THEN MathAbs(TypedGet(data, Number(n - 1)))
        ELSE Add(Mul(MathAbs(TypedGet(data, low)), Sub(Number(1), t)),
                 Mul(MathAbs(TypedGet(data, high)), t))

\* lines 48-56, one output sample
Interpolate(data, m, i) ==
    LET n     == Len(data)
        index == Div(Number(i * (n - 1)), Number(m - 1))
        low   == MathFloor(index)
        high  == MathCeil(index)
        t     == Sub(index, low)
    IN  IF GE(high, Number(n))
        THEN TypedGet(data, Number(n - 1))
        ELSE Add(Mul(TypedGet(data, low), Sub(Number(1), t)),
                 Mul(TypedGet(data, high), t))

\* lines 46-58
Upsample(data, m) == [k \in 1..m |-> Interpolate(data, m, k - 1)]

\* line 62: the array returned, with the local count array
Returned(st) ==
    [kind |-> "return", error |-> "", result |-> st.result, count |-> st.count]

\* lines 25-58: new Array(m) throws a RangeError for m < 0; otherwise the
\* array of the downsampling or of the interpolating branch
Resample(data, m, downsamplePeaks) ==
    IF m < 0
    THEN [kind |-> "throw", error |-> "RangeError", result |-> <<>>, count |-> <<>>]
    ELSE IF m <= Len(data)
    THEN Returned(Downsample(data, m, downsamplePeaks))
    ELSE Returned([result |-> Upsample(data, m), count |-> <<>>])

\* m.toString()
MKey(m) == ToString(m)

\* a key that does not tell the modes apart: typeof downsamplePeaks
DKeyTypeof(downsamplePeaks) == "boolean"

\* downsamplePeaks.toString()
DKey(downsamplePeaks) == IF downsamplePeaks THEN "true" ELSE "false"

\* the object {}
EmptyObject == [k \in {} |-> 0]

\* the cache object created anew at every memoized call
OpenCacheAnew(dm, b, mKey) == (b :> (mKey :> EmptyObject)) @@ dm

\* lines 18-20: the cache object of buffer b is created and stored if absent,
\* and so is its level cache[mKey]
OpenCache(dm, b, mKey) ==
    LET cache  == IF b \in DOMAIN dm THEN dm[b] ELSE EmptyObject
        cache2 == IF mKey \in DOMAIN cache THEN cache
                  ELSE (mKey :> EmptyObject) @@ cache
    IN  (b :> cache2) @@ dm

\* line 60: cache[mKey][dKey] = result
StoreCache(dm, b, mKey, dKey, id) ==
    [dm EXCEPT ![b] = [@ EXCEPT ![mKey] = (dKey :> id) @@ @]]

\* lines 59-62 (or the throw of line 26): the outcome c of the computation
\* is stored under the keys when memoize is set, and returned
Finish(dm1, arrs, call, data, c, id) ==
    IF c.kind = "throw"
    THEN [dataMap |-> dm1, arrays |-> arrs,
          ret |-> [kind |-> "throw", arr |-> 0, error |-> c.error, hit |-> FALSE,
                   count |-> <<>>, data |-> data, call |-> call]]
    ELSE [dataMap |-> IF call.memoize
                      THEN StoreCache(dm1, call.b, MKey(call.m), DKey(call.d), id)
                      ELSE dm1,
          arrays  |-> (id :> [value  |-> c.result,
                              origin |-> <<call.b, call.m, call.d>>,
                              input  |-> data]) @@ arrs,
          ret |-> [kind |-> "return", arr |-> id, error |-> "", hit |-> FALSE,
                   count |-> c.count, data |-> data, call |-> call]]

\* lines 21-23: the cached array is returned when there is one
Lookup(dm1, arrs, call, data) ==
    IF call.memoize /\ DKey(call.d) \in DOMAIN dm1[call.b][MKey(call.m)]
    THEN [dataMap |-> dm1, arrays |-> arrs,
          ret |-> [kind |-> "return", arr |-> dm1[call.b][MKey(call.m)][DKey(call.d)],
                   error |-> "", hit |-> TRUE, count |-> <<>>, data |-> data,
                   call |-> call]]
    ELSE Finish(dm1, arrs, call, data, Resample(data, call.m, call.d), NewId(arrs))

\* The whole call on buffer instance b with contents data: the WeakMap, the
\* heap of result arrays (identity -> [value, origin, input]) and the outcome
\* after it.  origin and input record the call an array was computed by.
normalizeArray(dm, arrs, b, data, m, downsamplePeaks, memoize) ==
    Lookup(IF memoize THEN OpenCache(dm, b, MKey(m)) ELSE dm, arrs,
           [b |-> b, m |-> m, d |-> downsamplePeaks, memoize |-> memoize], data)

----------------------------------------------------------------------------
(* WavRenderer.drawSpeechVisual, lines 73-112.  A coordinate is kept as    *)
(* the term the code computes, so that two coordinates are equal exactly   *)
(* when the code computes them from equal inputs.                          *)

numberOfPoints == 50

baseRadius == 40

squishFactorMax == 5

squishSpeed == 200

\* the outline with the deformation scaled by the summary's first value
PathPointScaled(i, t, centerX, centerY, points, speakingState) ==
    LET angle        == Frac(i, numberOfPoints)
        squishFactor == [fn |-> "sin",
                         of |-> <<Frac(t, squishSpeed), Mul(angle, Number(3))>>,
                         times |-> Mul(Number(squishFactorMax), points[1])]
        radius       == [base |-> Number(baseRadius), plus |-> squishFactor]
    IN  <<[center |-> centerX, fn |-> "cos", angle |-> angle, radius |-> radius],
          [center |-> centerY, fn |-> "sin", angle |-> angle, radius |-> radius]>>

\* lines 94-100: the i-th point of the outline, read at clock value t.
\* angle is in turns (times 2 PI); points and speakingState are in scope
\* and not read.
PathPoint(i, t, centerX, centerY, points, speakingState) ==
    LET angle        == Frac(i, numberOfPoints)
        squishFactor == [fn |-> "sin",
                         of |-> <<Frac(t, squishSpeed), Mul(angle, Number(3))>>,
                         times |-> Number(squishFactorMax)]
        radius       == [base |-> Number(baseRadius), plus |-> squishFactor]
    IN  <<[center |-> centerX, fn |-> "cos", angle |-> angle, radius |-> radius],
          [center |-> centerY, fn |-> "sin", angle |-> angle, radius |-> radius]>>

CtxCall(op, args, style) == [op |-> op, args |-> args, style |-> style]

\* the loop stopped one step early: i < numberOfPoints
OutlineCallsShort(readings, centerX, centerY, points, speakingState) ==
    [k \in 1..numberOfPoints |->
        CtxCall(IF k - 1 = 0 THEN "moveTo" ELSE "lineTo",
                PathPoint(k - 1, readings[k - 1], centerX, centerY, points,
                          speakingState),
                "")]

\* lines 93-107: the calls of the loop, steps 0..numberOfPoints
OutlineCalls(readings, centerX, centerY, points, speakingState) ==
    [k \in 1..(numberOfPoints + 1) |->
        CtxCall(IF k - 1 = 0 THEN "moveTo" ELSE "lineTo",
                PathPoint(k - 1, readings[k - 1], centerX, centerY, points,
                          speakingState),
                "")]

\* lines 80-111: every call made on ctx, in order; fill carries the
\* fillStyle set on line 110
DrawCalls(width, height, points, speakingState, readings) ==
    <<CtxCall("clearRect",
              <<Number(0), Number(0), Number(width), Number(height)>>, ""),
      CtxCall("beginPath", <<>>, "")>>
    \o OutlineCalls(readings, Frac(width, 2), Frac(height, 2), points, speakingState)
    \o <<CtxCall("closePath", <<>>, ""), CtxCall("fill", <<>>, "black")>>

\* the effect of one call on a 2D context: pixels are the filled shapes on
\* the surface, path the current path
CtxApply(sf, c) ==
    IF c.op = "clearRect"
    THEN IF c.args = <<Number(0), Number(0), Number(sf.width), Number(sf.height)>>
         THEN [sf EXCEPT !.pixels = <<>>]
         ELSE sf
    ELSE IF c.op = "beginPath" THEN [sf EXCEPT !.path = <<>>, !.closed = FALSE]
    ELSE IF c.op \in {"moveTo", "lineTo"} THEN [sf EXCEPT !.path = Append(@, c.args)]
    ELSE IF c.op = "closePath" THEN [sf EXCEPT !.closed = TRUE]
    ELSE [sf EXCEPT !.pixels = Append(@, [path   |-> sf.path,
                                           closed |-> sf.closed,
                                           style  |-> c.style])]

\* the calls lo..hi of a sequence applied in order (the range is halved,
\* and the first half looked at, as in DownsampleLoop)
RECURSIVE CtxApplyAll(_, _, _, _)
CtxApplyAll(sf, calls, lo, hi) ==
    IF lo > hi THEN sf
    ELSE IF lo = hi THEN CtxApply(sf, calls[lo])
    ELSE LET mid == (lo + hi) \div 2
             fst == CtxApplyAll(sf, calls, lo, mid)
         IN  CASE fst.closed \in BOOLEAN -> CtxApplyAll(fst, calls, mid + 1, hi)

\* line 79: the summary drawSpeechVisual asks of normalizeArray
DrawSummary(dm, arrs, b, data) == normalizeArray(dm, arrs, b, data, 10, TRUE, FALSE)

----------------------------------------------------------------------------
(* Inputs *)

MaxLen == 3

LongLen == 44

LongM == 30

MaxTime == 1

Samples == {-2, 0, 1}

\* the spec's scenario [0.1, -0.9, 0.3, 0.2], in tenths
ExampleBuffer == <<1, -9, 3, 2>>

\* one unit sample among LongLen - 1 zeros
Impulses == {[k \in 1..LongLen |-> IF k = p THEN 1 ELSE 0] : p \in 1..LongLen}

ResampleBuffers ==
    UNION {[1..k -> Samples] : k \in 0..MaxLen} \cup {ExampleBuffer} \cup Impulses

ResampleMs == (-1..(MaxLen + 1)) \cup {LongM}

\* the buffers of the running system: two instances of different contents
\* and lengths; the owner of the first refills it in place
SystemBuffers == <<<<1, -2>>, <<0, 1, 1>>>>

Refills == {<<1, -2>>, <<0, 1>>}

\* the (buffer, m, downsamplePeaks) the callers ask for: each differs from
\* the first in one argument
SystemCalls == {<<1, 1, TRUE>>, <<1, 1, FALSE>>, <<1, 4, TRUE>>, <<2, 1, TRUE>>}

CanvasIds == {"client", "server"}

CanvasSizes == {<<300, 150>>, <<200, 100>>}

SpeakingStates == {"ai", "user"}

\* the iteration of the outline loop before which the clock advances by a
\* millisecond during a paint; numberOfPoints + 1: not during the paint
ClockSteps == {numberOfPoints, numberOfPoints + 1}

----------------------------------------------------------------------------
(* State machine *)

\* paint records the last drawSpeechVisual on a canvas: its arguments, the
\* clock values it read, whether its summary came from the WeakMap, and the
\* number of shapes that were on the surface before it
NoPaint ==
    [b |-> 0, speakingState |-> "", readings |-> <<>>, hit |-> FALSE, before |-> 0]

NewCanvas(size) ==
    [width |-> size[1], height |-> size[2], pixels |-> <<>>, path |-> <<>>,
     closed |-> FALSE, calls |-> <<>>, paint |-> NoPaint]

InitCommon ==
    /\ dataMap = EmptyObject
    /\ arrays = EmptyObject
    /\ ret = NoRet
    /\ now = 0
    /\ firstRet = EmptyObject

\* one buffer drawn from the resampler's input space
InitResample ==
    /\ \E data \in ResampleBuffers : bufs = <<data>>
    /\ canvas = [c \in CanvasIds |-> NewCanvas(<<300, 150>>)]
    /\ InitCommon

Init ==
    /\ bufs = SystemBuffers
    /\ canvas = [c \in CanvasIds |-> NewCanvas(<<300, 150>>)]
    /\ InitCommon

\* the two canvases of the page, of equal or of different sizes
InitDraw ==
    /\ bufs = SystemBuffers
    /\ \E size \in CanvasSizes :
           canvas = [c \in CanvasIds |->
                        NewCanvas(IF c = "client" THEN <<300, 150>> ELSE size)]
    /\ InitCommon

\* the state after a call by the caller returned or threw; r is what
\* normalizeArray left
Called(r) ==
    LET key == <<r.ret.call.b, r.ret.call.m, r.ret.call.d>>
    IN  /\ dataMap' = r.dataMap
        /\ ret' = r.ret
        /\ arrays' = Sweep(r.arrays, r.dataMap, r.ret)
        /\ firstRet' = IF r.ret.call.memoize /\ r.ret.kind = "return"
                          /\ key \notin DOMAIN firstRet
                       THEN (key :> r.ret.arr) @@ firstRet
                       ELSE firstRet
        /\ UNCHANGED <<bufs, canvas, now>>

\* a call normalizeArray(bufs[b], m, downsamplePeaks, memoize) by the caller
Normalize(b, m, downsamplePeaks, memoize) ==
    Called(normalizeArray(dataMap, arrays, b, bufs[b], m, downsamplePeaks, memoize))

\* the owner of buffer b overwrites its samples in place
Refill(b, data) ==
    /\ Len(data) = Len(bufs[b])
    /\ data # bufs[b]
    /\ bufs' = [bufs EXCEPT ![b] = data]
    /\ UNCHANGED <<dataMap, arrays, ret, canvas, now, firstRet>>

\* lines 80-111 on canvas c: the calls are made on its context, and the
\* summary r.ret.arr, a local, is dropped
Paint(c, b, speakingState, readings, r, calls) ==
    /\ canvas' = [canvas EXCEPT ![c] =
                     [CtxApplyAll(@, calls, 1, Len(calls))
                          EXCEPT !.calls = calls,
                                 !.paint = [b |-> b,
                                            speakingState |-> speakingState,
                                            readings |-> readings,
                                            hit |-> r.ret.hit,
                                            before |-> Len(canvas[c].pixels)]]]
    /\ dataMap' = r.dataMap
    /\ arrays' = Sweep(r.arrays, r.dataMap, ret)
    /\ now' = readings[numberOfPoints]
    /\ UNCHANGED <<bufs, ret, firstRet>>

\* the calls of a paint of canvas c with the summary r.ret.arr
PaintCalls(c, speakingState, readings, r) ==
    DrawCalls(canvas[c].width, canvas[c].height, r.arrays[r.ret.arr].value,
              speakingState, readings)

\* Date.now() at each step of the loop: the clock advances by a millisecond
\* before step `step`
Readings(step) == [i \in 0..numberOfPoints |-> IF i < step THEN now ELSE now + 1]

\* a call drawSpeechVisual(canvas, ctx, bufs[b], speakingState)
DrawSpeechVisual(c, b, speakingState, step) ==
    /\ step <= numberOfPoints => now < MaxTime
    /\ Paint(c, b, speakingState, Readings(step),
             DrawSummary(dataMap, arrays, b, bufs[b]),
             PaintCalls(c, speakingState, Readings(step),
                        DrawSummary(dataMap, arrays, b, bufs[b])))

\* time passes between calls
Tick ==
    /\ now < MaxTime
    /\ now' = now + 1
    /\ UNCHANGED <<bufs, dataMap, arrays, ret, canvas, firstRet>>

Buffers == 1..Len(bufs)

\* one call on the input drawn
NextResample ==
    \E m \in ResampleMs, d \in BOOLEAN, memoize \in BOOLEAN :
        ret.kind = "none" /\ Normalize(1, m, d, memoize)

SpecResample == InitResample /\ [][NextResample]_vars

Next ==
    \/ \E call \in SystemCalls, memoize \in BOOLEAN :
           Normalize(call[1], call[2], call[3], memoize)
    \/ \E b \in Buffers, data \in Refills : Refill(b, data)

Spec == Init /\ [][Next]_vars

NextDraw ==
    \/ \E c \in CanvasIds, b \in Buffers, s \in SpeakingStates, step \in ClockSteps :
           DrawSpeechVisual(c, b, s, step)
    \/ Tick

SpecDraw == InitDraw /\ [][NextDraw]_vars

-----------------------------------------------------------------------------
(* Properties of normalizeArray, over SpecResample *)

\* the array a returned call handed back
Value(r) == arrays[r.arr].value

\* the call returned and asked for 1 <= m <= n
Downsampled ==
    /\ ret.kind = "return"
    /\ 1 <= ret.call.m
    /\ ret.call.m <= Len(ret.data)

\* the call returned and asked for m > n >= 1
Upsampled ==
    /\ ret.kind = "return"
    /\ 1 <= Len(ret.data)
    /\ ret.call.m > Len(ret.data)

\* the indices i in [0, n) with floor(i*m/n) = k, in exact arithmetic
ExactBucket(n, m, k) == {i \in 0..(n - 1) : (i * m) \div n = k}

\* the largest |data[i]| over the indices in S, 0 for the empty set
MaxAbsOver(data, S) ==
    IF S = {} THEN 0
    ELSE CHOOSE v \in {IntAbs(data[i + 1]) : i \in S} :
             \A w \in {IntAbs(data[i + 1]) : i \in S} : w <= v

RECURSIVE SumAbsOver(_, _)
SumAbsOver(data, S) ==
    IF S = {} THEN 0
    ELSE LET i == CHOOSE j \in S : TRUE
         IN  IntAbs(data[i + 1]) + SumAbsOver(data, S \ {i})

\* C1: a call with m <= 0 or with an empty buffer fails and returns no
\* array, in either mode and with either value of memoize.  (Any error
\* thrown is counted as the failure, whatever its kind.)
C1_InvalidArgument ==
    (ret.kind # "none" /\ (ret.call.m <= 0 \/ Len(ret.data) = 0))
        => ret.kind = "throw"

\* C2: for 1 <= m <= n the peak-mode result has length m, and its entry k
\* is the largest |buffer[i]| over the indices i with floor(i*m/n) = k
\* (0 when there is none), hence >= 0.
C2_PeakBuckets ==
    (Downsampled /\ ret.call.d)
        => /\ Len(Value(ret)) = ret.call.m
           /\ \A k \in 0..(ret.call.m - 1) :
                 Value(ret)[k + 1] =
                     Number(MaxAbsOver(ret.data,
                                ExactBucket(Len(ret.data), ret.call.m, k)))

\* C3: for 1 <= m <= n the average-mode result has length m, and its entry
\* k is the sum of |buffer[i]| over the indices i with floor(i*m/n) = k
\* divided by their number; a bucket without samples yields 0 and nothing
\* is divided by a zero count.
C3_AverageBuckets ==
    (Downsampled /\ ~ret.call.d)
        => /\ Len(Value(ret)) = ret.call.m
           /\ \A k \in 0..(ret.call.m - 1) :
                 LET S == ExactBucket(Len(ret.data), ret.call.m, k)
                 IN  /\ Value(ret)[k + 1] =
                            IF S = {} THEN Number(0)
                            ELSE Frac(SumAbsOver(ret.data, S), Cardinality(S))
                     /\ ret.count[k + 1] # Number(0)

\* C4: for m > n >= 1 the result has length m, its first and last entries
\* are the first and last samples, entry i is
\* buffer[low]*(1-t) + buffer[high]*t at pos = i*(n-1)/(m-1) with the
\* samples' signs kept, and the other mode gives the same array.
C4_Upsample ==
    Upsampled
        => LET n == Len(ret.data)
               m == ret.call.m
           IN  /\ Len(Value(ret)) = m
               /\ Value(ret)[1] = Number(ret.data[1])
               /\ Value(ret)[m] = Number(ret.data[n])
               /\ \A i \in 0..(m - 1) :
                     LET low  == (i * (n - 1)) \div (m - 1)
                         r    == (i * (n - 1)) % (m - 1)
                         high == IF r = 0 THEN low ELSE low + 1
                     IN  Value(ret)[i + 1] =
                             Frac(ret.data[low + 1] * ((m - 1) - r)
                                      + ret.data[high + 1] * r,
                                  m - 1)
               /\ Value(ret) = Resample(ret.data, m, ~ret.call.d).result

\* an upsampling call whose positions fall between samples of both signs
C4_Witness ==
    /\ Upsampled
    /\ Len(ret.data) = MaxLen
    /\ ret.call.m = MaxLen + 1
    /\ ret.data[1] > 0
    /\ ret.data[2] < 0

\* C10: for 1 <= m <= n the bucket index computed for i in [0, n) never
\* decreases with i, lies in [0, m-1] and takes every value of [0, m-1];
\* so the count of every bucket is at least 1 when average mode divides
\* by it.
C10_BucketMapping ==
    Downsampled
        => LET n == Len(ret.data)
               m == ret.call.m
           IN  /\ \A i \in 0..(n - 1) :
                     /\ 0 <= BucketIndex(i, m, n)
                     /\ BucketIndex(i, m, n) <= m - 1
                     /\ i < n - 1 => BucketIndex(i, m, n) <= BucketIndex(i + 1, m, n)
               /\ \A k \in 0..(m - 1) :
                     /\ \E i \in 0..(n - 1) : BucketIndex(i, m, n) = k
                     /\ ret.count[k + 1] =
                            Number(Cardinality({i \in 0..(n - 1) :
                                                   BucketIndex(i, m, n) = k}))
               /\ Len(ret.count) = m

\* an average-mode call whose buckets are uneven, one of them bounded by a
\* product that rounds
C10_Witness ==
    /\ Downsampled
    /\ ~ret.call.d
    /\ Len(ret.data) = LongLen
    /\ ret.call.m = LongM
    /\ \E k \in 1..LongM : ret.count[k] = Number(2)
    /\ \E k \in 1..LongM : ret.count[k] = Number(1)

-----------------------------------------------------------------------------
(* Properties of the WeakMap, over Spec *)

\* the (buffer, m, downsamplePeaks) of a call
KeyOf(call) == <<call.b, call.m, call.d>>

\* the key has an entry in the WeakMap
Stored(key) ==
    /\ key[1] \in DOMAIN dataMap
    /\ MKey(key[2]) \in DOMAIN dataMap[key[1]]
    /\ DKey(key[3]) \in DOMAIN dataMap[key[1]][MKey(key[2])]

\* C5: a memoized call returns the instance the first memoized call with
\* its (b, m, d) returned, an array computed for that very (b, m, d); an
\* entry once stored stays, holding that instance.
C5_SameInstance ==
    /\ (ret.kind = "return" /\ ret.call.memoize)
           => /\ KeyOf(ret.call) \in DOMAIN firstRet
              /\ ret.arr = firstRet[KeyOf(ret.call)]
              /\ arrays[ret.arr].origin = KeyOf(ret.call)
    /\ \A key \in DOMAIN firstRet :
           /\ Stored(key)
           /\ dataMap[key[1]][MKey(key[2])][DKey(key[3])] = firstRet[key]
           /\ firstRet[key] \in DOMAIN arrays
           /\ arrays[firstRet[key]].origin = key
    /\ \A key1, key2 \in DOMAIN firstRet :
           key1 # key2 => firstRet[key1] # firstRet[key2]

\* a memoized call answered from the WeakMap while entries for another m,
\* the other mode and another buffer are stored
C5_Witness ==
    /\ ret.kind = "return"
    /\ ret.call.memoize
    /\ ret.hit
    /\ \A call \in SystemCalls : call \in DOMAIN firstRet

\* C9 as stated: a memoized call returns what an unmemoized call would
\* return for the buffer, m and mode at that point, also after the
\* buffer's contents were changed in place.
C9_Transparent ==
    (ret.kind = "return" /\ ret.call.memoize)
        => Value(ret) = Resample(ret.data, ret.call.m, ret.call.d).result

\* C9: a memoized call returns what an unmemoized call returned for the
\* contents the buffer had at the first memoized call with that (b, m, d);
\* that is what an unmemoized call would return now as long as the
\* contents were not changed in between.
C9_TransparentUntilRefill ==
    (ret.kind = "return" /\ ret.call.memoize)
        => /\ Value(ret) = Resample(arrays[ret.arr].input, ret.call.m,
                                    ret.call.d).result
           /\ arrays[ret.arr].input = ret.data
                  => Value(ret) = Resample(ret.data, ret.call.m,
                                           ret.call.d).result
           /\ ~ret.hit => arrays[ret.arr].input = ret.data

\* a memoized call answered from the WeakMap with the array of contents
\* the buffer no longer has
C9_Witness ==
    /\ ret.kind = "return"
    /\ ret.call.memoize
    /\ ret.hit
    /\ arrays[ret.arr].input # ret.data
    /\ Value(ret) # Resample(ret.data, ret.call.m, ret.call.d).result

-----------------------------------------------------------------------------
(* Properties of drawSpeechVisual, over SpecDraw *)

Painted(c) == canvas[c].paint.b # 0

\* C6: a paint clears the whole surface, begins a path, moves to its first
\* point, draws numberOfPoints lines, closes the path and fills it with one
\* colour, in this order; the surface then holds that one closed shape.
C6_PaintOrder ==
    \A c \in CanvasIds :
        Painted(c)
            => LET calls == canvas[c].calls
                   last  == numberOfPoints + 5
               IN  /\ Len(calls) = last
                   /\ calls[1].op = "clearRect"
                   /\ calls[1].args = <<Number(0), Number(0),
                                        Number(canvas[c].width),
                                        Number(canvas[c].height)>>
                   /\ calls[2].op = "beginPath"
                   /\ calls[3].op = "moveTo"
                   /\ \A k \in 4..(last - 2) : calls[k].op = "lineTo"
                   /\ Cardinality({k \in 1..last : calls[k].op = "lineTo"})
                          = numberOfPoints
                   /\ calls[last - 1].op = "closePath"
                   /\ calls[last].op = "fill"
                   /\ calls[last].style = "black"
                   /\ Len(canvas[c].pixels) = 1
                   /\ canvas[c].pixels[1].closed
                   /\ canvas[c].pixels[1].style = "black"
                   /\ canvas[c].pixels[1].path =
                          [k \in 1..(numberOfPoints + 1) |-> calls[k + 2].args]

\* a paint over the shape an earlier paint left on the surface
C6_Witness ==
    \E c \in CanvasIds : Painted(c) /\ canvas[c].paint.before = 1

\* C7: after a paint of buffer b the WeakMap holds the entry of
\* (b, 10, peak), and of two paints of the same buffer one was answered
\* from it.
C7_DrawMemoizes ==
    /\ \A c \in CanvasIds :
           Painted(c) => Stored(<<canvas[c].paint.b, 10, TRUE>>)
    /\ \A c1, c2 \in CanvasIds :
           (c1 # c2 /\ Painted(c1) /\ canvas[c1].paint.b = canvas[c2].paint.b)
               => canvas[c1].paint.hit \/ canvas[c2].paint.hit

\* C8: two paints that read the same clock values on surfaces of equal
\* size make the same calls with the same arguments and colour, whatever
\* their buffers and tags.
C8_PathIndependent ==
    \A c1, c2 \in CanvasIds :
        (/\ Painted(c1)
         /\ Painted(c2)
         /\ canvas[c1].width = canvas[c2].width
         /\ canvas[c1].height = canvas[c2].height
         /\ canvas[c1].paint.readings = canvas[c2].paint.readings)
            => canvas[c1].calls = canvas[c2].calls

\* two surfaces of equal size painted at the same time from buffers of
\* different contents and lengths, with different tags
C8_Witness ==
    \E c1, c2 \in CanvasIds :
        /\ Painted(c1)
        /\ Painted(c2)
        /\ canvas[c1].width = canvas[c2].width
        /\ canvas[c1].height = canvas[c2].height
        /\ canvas[c1].paint.readings = canvas[c2].paint.readings
        /\ canvas[c1].paint.b # canvas[c2].paint.b
        /\ canvas[c1].paint.speakingState # canvas[c2].paint.speakingState
        /\ canvas[c1].paint.readings[0] > 0

====
